---- MODULE Spec2Model ----
(***************************************************************************)
(* Model of the in-memory session store of packages/backend                *)
(* (src/packages/backend/src/sessionStore.js): a Map of entries with TTL,  *)
(* LRU / soonest-to-expire eviction, a periodic sweeper and metrics.       *)
(*                                                                         *)
(* Time is the millisecond clock (Date.now()); an ISO timestamp string is  *)
(* the tuple <<"iso", ms>>, the absent timestamp (null / undefined) is     *)
(* <<>>.  The Map is a sequence of entries in insertion order, which is    *)
(* the order Map.prototype.entries() iterates in.                          *)
(***************************************************************************)
EXTENDS Integers, Sequences, FiniteSets, TLC

\* ------------------------------------------------------------------ bounds
MaxTime == 2
MaxCalls == 3
MaxEvictCalls == 4
MaxStatsCalls == 4
MaxReinsertCalls == 4
MaxSingletonCalls == 4
MaxRunCalls == 3
MaxSteps == 3

AllKeys == {"k1", "k2", "k3"}
Keys == {"k1", "k2"}
Vals == {"v1", "v2"}
Addrs == {"o1"}
TTLArgs == {0, 1}
SignedTTLArgs == {-1, 0, 1}

\* ------------------------------------------------------- program constants
NoId == "null"
SizeLimit == 1024 * 1024
DefaultMaxEntries == 10000
DefaultTTLMs == 24 * 60 * 60 * 1000
\* Infinity and new Date(8640000000000000), clipped to 32-bit integers: both
\* are only ever compared with timestamps, which stay far below them.
Infinity == 2147483647
MaxDateMs == 2147483646

\* ------------------------------------------------------------- timestamps
NullTime == <<>>
ToISOString(ms) == <<"iso", ms>>
ParseDate(str) == str[2]
Truthy(str) == str # NullTime

\* ---------------------------------------------------------------- the Map
RECURSIVE IndexOf(_, _, _)
IndexOf(s, id, i) ==
  IF i > Len(s) THEN 0
  ELSE IF s[i].id = id THEN i ELSE IndexOf(s, id, i + 1)

MapHas(s, id) == IndexOf(s, id, 1) # 0
MapGet(s, id) == s[IndexOf(s, id, 1)]
MapSetIfAbsent(s, id, e) == IF MapHas(s, id) THEN s ELSE Append(s, e)
MapSet(s, id, e) ==
  IF MapHas(s, id) THEN [s EXCEPT ![IndexOf(s, id, 1)] = e] ELSE Append(s, e)
MapDelete(s, id) == SelectSeq(s, LAMBDA e : e.id # id)
MapKeys(s) == {s[i].id : i \in 1..Len(s)}

VARIABLES
  now,              \* Date.now()
  options,          \* the argument of the constructor
  maxEntries, defaultTTLMs, evictionPolicy,
  sessions,         \* this.sessions
  metrics,          \* this.metrics
  cleanupInterval,  \* TRUE while the sweeper timer is armed
  heap,             \* contents of the nested objects the caller created
  microtasks,       \* continuations of set calls suspended at their await
  budget,           \* number of calls the callers still make
  lastSet,          \* per key: the latest set, until a touch, del, clear,
                    \* destroy or eviction of the key
  last,             \* the step taken last and what the call returned
  storeInstance,    \* the module's singleton: 0 for null, else the number
                    \* of the instance the store variables above describe
  retired,          \* the instances initSessionStore replaced, in order
  analysis,         \* session.results.analysis
  runs,             \* per invocation of runAnalysis: where it stands
  saves             \* number of session.save() calls made

vars == <<now, options, maxEntries, defaultTTLMs, evictionPolicy, sessions,
          metrics, cleanupInterval, heap, microtasks, budget, lastSet, last,
          storeInstance, retired, analysis, runs, saves>>

config == <<options, maxEntries, defaultTTLMs, evictionPolicy>>
singleton == <<storeInstance, retired>>
executor == <<analysis, runs, saves>>
\* What no method of a store object reads or writes.
apart == <<singleton, executor>>

NoSet == [at |-> -1, ttl |-> 0, top |-> "none", inputs |-> "none"]
NoValue == [id |-> NoId, createdAt |-> NullTime, updatedAt |-> NullTime,
            expiresAt |-> NullTime, top |-> "none", inputs |-> "none"]
NoStats == [entryCount |-> -1, maxEntries |-> 0, hits |-> 0, misses |-> 0,
            sets |-> 0, deletes |-> 0, evictions |-> 0, hitRate |-> <<0, 1>>]
NoCall == [op |-> "new", id |-> NoId, ret |-> "void", value |-> NoValue,
           victim |-> NoId, auto |-> FALSE, size |-> 0, stats |-> NoStats,
           ttl |-> 0, store |-> 0, run |-> 0]

\* What a caller reads through a reference to a stored session object.
Deref(session, h) ==
  [id |-> session.id, createdAt |-> session.createdAt,
   updatedAt |-> session.updatedAt, expiresAt |-> session.expiresAt,
   top |-> session.top, inputs |-> h[session.inputs]]

\* ------------------------------------------------------------ constructor
\* options.x || d, for a number and for a string; an option that is not
\* given is a field the record does not have.
OrNumber(opts, field, d) ==
  IF field \in DOMAIN opts /\ opts[field] # 0 THEN opts[field] ELSE d
OrString(opts, field, d) ==
  IF field \in DOMAIN opts /\ opts[field] # "" THEN opts[field] ELSE d

Constructor(opts) ==
  /\ options = opts
  /\ maxEntries = OrNumber(opts, "maxEntries", DefaultMaxEntries)
  /\ defaultTTLMs = OrNumber(opts, "defaultTTLMs", DefaultTTLMs)
  /\ evictionPolicy = OrString(opts, "evictionPolicy", "lru")
  /\ sessions = <<>>
  /\ metrics = [hits |-> 0, misses |-> 0, sets |-> 0, deletes |-> 0,
                evictions |-> 0]
  /\ cleanupInterval = TRUE

\* --------------------------------------------------- the analysis state
\* METHODOLOGY_STEPS, cut to its first MaxSteps entries; a step is named by
\* its position.
Steps == 1..MaxSteps
Runs == {1, 2}

PendingStep == [status |-> "pending", result |-> "null"]
CompletedStep == [status |-> "completed", result |-> "existing"]

\* createInitialAnalysisState()
InitialAnalysisState ==
  [status |-> "pending", startedAt |-> NullTime, completedAt |-> NullTime,
   steps |-> [i \in Steps |-> PendingStep], error |-> "null",
   currentStepIndex |-> -1, files |-> FALSE]

IdleRun == [pc |-> "idle", index |-> 0, calls |-> <<>>, todo |-> <<>>]

\* The state after new SessionStore(opts), with calls still to come and a
\* session whose analysis state is the one given.
StartWith(opts, calls, state) ==
  /\ storeInstance = 0
  /\ retired = <<>>
  /\ analysis = state
  /\ runs = [r \in Runs |-> IdleRun]
  /\ saves = 0
  /\ now = 0
  /\ Constructor(opts)
  /\ heap = [a \in Addrs |-> "v1"]
  /\ microtasks = <<>>
  /\ budget = calls
  /\ lastSet = [k \in AllKeys |-> NoSet]
  /\ last = NoCall

Start(opts, calls) == StartWith(opts, calls, InitialAnalysisState)

TestOptions ==
  [maxEntries : {1, 2}, defaultTTLMs : {2}, evictionPolicy : {"lru", "ttl"}]

Init == \E opts \in TestOptions : Start(opts, MaxCalls)

\* ------------------------------------------------------------------ clock
Tick ==
  /\ now < MaxTime
  /\ now' = now + 1
  /\ last' = [NoCall EXCEPT !.op = "tick"]
  /\ UNCHANGED <<config, apart, sessions, metrics, cleanupInterval, heap,
                 microtasks, budget, lastSet>>

\* A call a caller makes.
Called == budget > 0 /\ budget' = budget - 1

\* ---------------------------------------------------------------- _evict
LruOlderOrEqual(lastAccessed, oldestAccess) == lastAccessed <= oldestAccess
LruOlder(lastAccessed, oldestAccess) == lastAccessed < oldestAccess

RECURSIVE LruScan(_, _, _, _)
LruScan(s, i, oldestAccess, victimId) ==
  IF i > Len(s) THEN victimId
  ELSE IF LruOlder(s[i].lastAccessed, oldestAccess)
       THEN LruScan(s, i + 1, s[i].lastAccessed, s[i].id)
       ELSE LruScan(s, i + 1, oldestAccess, victimId)

TtlSooner(expiry, soonestExpiry) == expiry < soonestExpiry

RECURSIVE TtlScan(_, _, _, _)
TtlScan(s, i, soonestExpiry, victimId) ==
  IF i > Len(s) THEN victimId
  ELSE IF TtlSooner(ParseDate(s[i].expiresAt), soonestExpiry)
       THEN TtlScan(s, i + 1, ParseDate(s[i].expiresAt), s[i].id)
       ELSE TtlScan(s, i + 1, soonestExpiry, victimId)

EvictVictimLruOnly(s, policy) ==
  IF Len(s) = 0 THEN NoId ELSE LruScan(s, 1, Infinity, NoId)

\* The id _evict deletes from s, NoId when it deletes nothing.
EvictVictim(s, policy) ==
  IF Len(s) = 0 THEN NoId
  ELSE IF policy = "lru" THEN LruScan(s, 1, Infinity, NoId)
  ELSE IF policy = "ttl" THEN TtlScan(s, 1, MaxDateMs, NoId)
  ELSE NoId

\* ------------------------------------------------------------------- set
SetTTL(ttlMs, dflt) == IF ttlMs # 0 THEN ttlMs ELSE dflt

SizeExceededByTwo(sessionSize) == sessionSize > SizeLimit + 1
SizeExceeded(sessionSize) == sessionSize > SizeLimit

NeedsEvictAbove(s, id, cap) == ~MapHas(s, id) /\ Len(s) > cap
NeedsEvictCountingLive(s, id, cap) ==
  ~MapHas(s, id) /\ Len(SelectSeq(s, LAMBDA e : e.expiresAt[2] >= now)) >= cap
NeedsEvictWhenFull(s, id, cap) == Len(s) >= cap
NeedsEvict(s, id, cap) == ~MapHas(s, id) /\ Len(s) >= cap

NewEntry(id, session, nowMs, expiresMs, dateNow) ==
  [id |-> id,
   session |-> [top |-> session.top, inputs |-> session.inputs, id |-> id,
                createdAt |-> IF Truthy(session.createdAt)
                              THEN session.createdAt ELSE ToISOString(nowMs),
                updatedAt |-> ToISOString(nowMs),
                expiresAt |-> ToISOString(expiresMs)],
   expiresAt |-> ToISOString(expiresMs),
   lastAccessed |-> dateNow]

\* The values a caller passes as the session argument.  size is
\* JSON.stringify(session).length; createdAt is absent, or the time that an
\* earlier createSession() or a fetched session carries.
PlainSession ==
  [top |-> "v1", inputs |-> "o1", createdAt |-> NullTime, size |-> SizeLimit]

SessionArgs ==
  [top : Vals, inputs : Addrs, createdAt : {NullTime}, size : {SizeLimit}]
  \cup
  {[PlainSession EXCEPT !.createdAt = ToISOString(0)],
   [PlainSession EXCEPT !.size = SizeLimit + 1]}

SetRecord(session, nowMs, ttl) ==
  [at |-> nowMs, ttl |-> ttl, top |-> session.top,
   inputs |-> heap[session.inputs]]

SetReturn(id, victim, auto, size) ==
  [op |-> "set", id |-> id, ret |-> "id", value |-> NoValue,
   victim |-> victim, auto |-> auto, size |-> size, stats |-> NoStats,
   ttl |-> 0, store |-> 0, run |-> 0]

SetThrow(id, auto, size) ==
  [op |-> "set", id |-> id, ret |-> "SizeError", value |-> NoValue,
   victim |-> NoId, auto |-> auto, size |-> size, stats |-> NoStats,
   ttl |-> 0, store |-> 0, run |-> 0]

\* set(id, session, ttlMs) run to completion with no other call in between.
\* gen is the value generateId() returns when id is not given.
Set(idArg, gen, session, ttlMs) ==
  /\ microtasks = <<>>
  /\ Called
  /\ LET id == IF idArg = NoId THEN gen ELSE idArg
         ttl == SetTTL(ttlMs, defaultTTLMs)
         expiresMs == now + ttl
     IN IF SizeExceeded(session.size)
        THEN /\ last' = SetThrow(id, idArg = NoId, session.size)
             /\ UNCHANGED <<sessions, metrics, lastSet>>
        ELSE LET victim == IF NeedsEvict(sessions, id, maxEntries)
                           THEN EvictVictim(sessions, evictionPolicy)
                           ELSE NoId
                 evicted == IF victim # NoId
                            THEN MapDelete(sessions, victim) ELSE sessions
                 entry == NewEntry(id, session, now, expiresMs, now)
             IN /\ sessions' = MapSet(evicted, id, entry)
                /\ metrics' =
                     [metrics EXCEPT
                        !.evictions = @ + (IF victim # NoId THEN 1 ELSE 0),
                        !.sets = @ + 1]
                /\ lastSet' =
                     [k \in AllKeys |->
                        IF k = id THEN SetRecord(session, now, ttl)
                        ELSE IF k = victim THEN NoSet ELSE lastSet[k]]
                /\ last' = SetReturn(id, victim, idArg = NoId, session.size)
  /\ UNCHANGED <<now, config, apart, cleanupInterval, heap, microtasks>>

\* set entered while other calls may be suspended: it runs to its end when
\* it does not evict, and otherwise runs _evict() and is suspended at the
\* await of line 88, its continuation queued behind the earlier ones.
SetCall(idArg, gen, session, ttlMs) ==
  /\ Called
  /\ LET id == IF idArg = NoId THEN gen ELSE idArg
         ttl == SetTTL(ttlMs, defaultTTLMs)
         expiresMs == now + ttl
     IN IF SizeExceeded(session.size)
        THEN /\ last' = SetThrow(id, idArg = NoId, session.size)
             /\ UNCHANGED <<sessions, metrics, lastSet, microtasks>>
        ELSE IF NeedsEvict(sessions, id, maxEntries)
        THEN LET victim == EvictVictim(sessions, evictionPolicy)
             IN /\ sessions' = IF victim # NoId
                               THEN MapDelete(sessions, victim) ELSE sessions
                /\ metrics' =
                     [metrics EXCEPT
                        !.evictions = @ + (IF victim # NoId THEN 1 ELSE 0)]
                /\ lastSet' = [k \in AllKeys |->
                                 IF k = victim THEN NoSet ELSE lastSet[k]]
                /\ microtasks' =
                     Append(microtasks,
                            [id |-> id, session |-> session, nowMs |-> now,
                             ttl |-> ttl, victim |-> victim,
                             auto |-> (idArg = NoId)])
                /\ last' = [NoCall EXCEPT !.op = "await", !.id = id,
                                          !.victim = victim]
        ELSE /\ sessions' =
                  MapSet(sessions, id,
                         NewEntry(id, session, now, expiresMs, now))
             /\ metrics' = [metrics EXCEPT !.sets = @ + 1]
             /\ lastSet' = [lastSet EXCEPT ![id] = SetRecord(session, now, ttl)]
             /\ last' = SetReturn(id, NoId, idArg = NoId, session.size)
             /\ UNCHANGED microtasks
  /\ UNCHANGED <<now, config, apart, cleanupInterval, heap>>

\* The oldest suspended set resumes after its await: lines 91-107.
SetResume ==
  /\ microtasks # <<>>
  /\ LET c == Head(microtasks)
     IN /\ sessions' =
             MapSet(sessions, c.id,
                    NewEntry(c.id, c.session, c.nowMs, c.nowMs + c.ttl, now))
        /\ metrics' = [metrics EXCEPT !.sets = @ + 1]
        /\ lastSet' =
             [lastSet EXCEPT ![c.id] = SetRecord(c.session, c.nowMs, c.ttl)]
        /\ last' = SetReturn(c.id, c.victim, c.auto, c.session.size)
  /\ microtasks' = Tail(microtasks)
  /\ UNCHANGED <<now, config, apart, cleanupInterval, heap, budget>>

\* ------------------------------------------------------------ get, exists
Expired(entry, nowMs) ==
  Truthy(entry.expiresAt) /\ ParseDate(entry.expiresAt) < nowMs

GetResultCountsEviction(id) ==
  IF ~MapHas(sessions, id)
  THEN [sessions |-> sessions,
        metrics |-> [metrics EXCEPT !.misses = @ + 1],
        ret |-> "null", value |-> NoValue]
  ELSE IF Expired(MapGet(sessions, id), now)
  THEN [sessions |-> MapDelete(sessions, id),
        metrics |-> [metrics EXCEPT !.deletes = @ + 1, !.misses = @ + 1,
                                    !.evictions = @ + 1],
        ret |-> "null", value |-> NoValue]
  ELSE [sessions |->
          [sessions EXCEPT ![IndexOf(sessions, id, 1)].lastAccessed = now],
        metrics |-> [metrics EXCEPT !.hits = @ + 1],
        ret |-> "value",
        value |-> Deref(MapGet(sessions, id).session, heap)]

GetResultNoLazyMiss(id) ==
  IF ~MapHas(sessions, id)
  THEN [sessions |-> sessions,
        metrics |-> [metrics EXCEPT !.misses = @ + 1],
        ret |-> "null", value |-> NoValue]
  ELSE IF Expired(MapGet(sessions, id), now)
  THEN [sessions |-> MapDelete(sessions, id),
        metrics |-> [metrics EXCEPT !.deletes = @ + 1],
        ret |-> "null", value |-> NoValue]
  ELSE [sessions |->
          [sessions EXCEPT ![IndexOf(sessions, id, 1)].lastAccessed = now],
        metrics |-> [metrics EXCEPT !.hits = @ + 1],
        ret |-> "value",
        value |-> Deref(MapGet(sessions, id).session, heap)]

\* The state get(id) leaves and what it returns.
GetResult(id) ==
  IF ~MapHas(sessions, id)
  THEN [sessions |-> sessions,
        metrics |-> [metrics EXCEPT !.misses = @ + 1],
        ret |-> "null", value |-> NoValue]
  ELSE IF Expired(MapGet(sessions, id), now)
  THEN [sessions |-> MapDelete(sessions, id),
        metrics |-> [metrics EXCEPT !.deletes = @ + 1, !.misses = @ + 1],
        ret |-> "null", value |-> NoValue]
  ELSE [sessions |->
          [sessions EXCEPT ![IndexOf(sessions, id, 1)].lastAccessed = now],
        metrics |-> [metrics EXCEPT !.hits = @ + 1],
        ret |-> "value",
        value |-> Deref(MapGet(sessions, id).session, heap)]

Get(id) ==
  /\ microtasks = <<>>
  /\ Called
  /\ LET r == GetResult(id)
     IN /\ sessions' = r.sessions
        /\ metrics' = r.metrics
        /\ last' = [NoCall EXCEPT !.op = "get", !.id = id, !.ret = r.ret,
                                  !.value = r.value]
  /\ UNCHANGED <<now, config, apart, cleanupInterval, heap, microtasks, lastSet>>

ExistsPeek(id) ==
  /\ microtasks = <<>>
  /\ Called
  /\ last' = [NoCall EXCEPT
                !.op = "exists", !.id = id,
                !.ret = IF MapHas(sessions, id)
                           /\ ~Expired(MapGet(sessions, id), now)
                        THEN "true" ELSE "false"]
  /\ UNCHANGED <<now, config, apart, sessions, metrics, cleanupInterval, heap,
                 microtasks, lastSet>>

Exists(id) ==
  /\ microtasks = <<>>
  /\ Called
  /\ LET r == GetResult(id)
     IN /\ sessions' = r.sessions
        /\ metrics' = r.metrics
        /\ last' = [NoCall EXCEPT
                      !.op = "exists", !.id = id,
                      !.ret = IF r.ret # "null" THEN "true" ELSE "false"]
  /\ UNCHANGED <<now, config, apart, cleanupInterval, heap, microtasks, lastSet>>

\* ------------------------------------------------------------- del, clear
DelAlwaysCounts(id) ==
  /\ microtasks = <<>>
  /\ Called
  /\ sessions' = MapDelete(sessions, id)
  /\ metrics' = [metrics EXCEPT !.deletes = @ + 1]
  /\ lastSet' = [lastSet EXCEPT ![id] = NoSet]
  /\ last' = [NoCall EXCEPT
                !.op = "del", !.id = id,
                !.ret = IF MapHas(sessions, id) THEN "true" ELSE "false"]
  /\ UNCHANGED <<now, config, apart, cleanupInterval, heap, microtasks>>

Del(id) ==
  /\ microtasks = <<>>
  /\ Called
  /\ sessions' = MapDelete(sessions, id)
  /\ metrics' = IF MapHas(sessions, id)
                THEN [metrics EXCEPT !.deletes = @ + 1] ELSE metrics
  /\ lastSet' = [lastSet EXCEPT ![id] = NoSet]
  /\ last' = [NoCall EXCEPT
                !.op = "del", !.id = id,
                !.ret = IF MapHas(sessions, id) THEN "true" ELSE "false"]
  /\ UNCHANGED <<now, config, apart, cleanupInterval, heap, microtasks>>

ClearCountingDeletes ==
  /\ microtasks = <<>>
  /\ Called
  /\ sessions' = <<>>
  /\ metrics' = [metrics EXCEPT !.deletes = @ + Len(sessions)]
  /\ lastSet' = [k \in AllKeys |-> NoSet]
  /\ last' = [NoCall EXCEPT !.op = "clear"]
  /\ UNCHANGED <<now, config, apart, cleanupInterval, heap, microtasks>>

Clear ==
  /\ microtasks = <<>>
  /\ Called
  /\ sessions' = <<>>
  /\ lastSet' = [k \in AllKeys |-> NoSet]
  /\ last' = [NoCall EXCEPT !.op = "clear"]
  /\ UNCHANGED <<now, config, apart, metrics, cleanupInterval, heap, microtasks>>

\* ------------------------------------------------------------------ stats
\* hits / (hits + misses) || 0 as the fraction <<numerator, denominator>>:
\* 0 / 0 is NaN and NaN || 0 is 0, as is 0 / n || 0.
HitRateNaN(m) ==
  IF m.hits + m.misses = 0 THEN <<0, 0>> ELSE <<m.hits, m.hits + m.misses>>

HitRate(m) ==
  IF m.hits = 0 THEN <<0, 1>> ELSE <<m.hits, m.hits + m.misses>>

StatsResult ==
  [entryCount |-> Len(sessions), maxEntries |-> maxEntries,
   hits |-> metrics.hits, misses |-> metrics.misses, sets |-> metrics.sets,
   deletes |-> metrics.deletes, evictions |-> metrics.evictions,
   hitRate |-> HitRate(metrics)]

Stats ==
  /\ microtasks = <<>>
  /\ Called
  /\ last' = [NoCall EXCEPT !.op = "stats", !.stats = StatsResult]
  /\ UNCHANGED <<now, config, apart, sessions, metrics, cleanupInterval, heap,
                 microtasks, lastSet>>

\* ------------------------------------------------------------------ touch
TouchFromOldExpiry(id, ttlMs) ==
  /\ microtasks = <<>>
  /\ Called
  /\ IF ~MapHas(sessions, id)
     THEN /\ last' = [NoCall EXCEPT !.op = "touch", !.id = id,
                                    !.ret = "false", !.ttl = ttlMs]
          /\ UNCHANGED <<sessions, lastSet>>
     ELSE LET i == IndexOf(sessions, id, 1)
              expiresAt == ToISOString(ParseDate(sessions[i].expiresAt)
                                       + SetTTL(ttlMs, defaultTTLMs))
          IN /\ sessions' =
                  [sessions EXCEPT ![i].expiresAt = expiresAt,
                                   ![i].session.expiresAt = expiresAt,
                                   ![i].session.updatedAt = ToISOString(now),
                                   ![i].lastAccessed = now]
             /\ lastSet' = [lastSet EXCEPT ![id] = NoSet]
             /\ last' = [NoCall EXCEPT !.op = "touch", !.id = id,
                                       !.ret = "true", !.ttl = ttlMs]
  /\ UNCHANGED <<now, config, apart, metrics, cleanupInterval, heap, microtasks>>

Touch(id, ttlMs) ==
  /\ microtasks = <<>>
  /\ Called
  /\ IF ~MapHas(sessions, id)
     THEN /\ last' = [NoCall EXCEPT !.op = "touch", !.id = id,
                                    !.ret = "false", !.ttl = ttlMs]
          /\ UNCHANGED <<sessions, lastSet>>
     ELSE LET i == IndexOf(sessions, id, 1)
              expiresAt == ToISOString(now + SetTTL(ttlMs, defaultTTLMs))
          IN /\ sessions' =
                  [sessions EXCEPT ![i].expiresAt = expiresAt,
                                   ![i].session.expiresAt = expiresAt,
                                   ![i].session.updatedAt = ToISOString(now),
                                   ![i].lastAccessed = now]
             /\ lastSet' = [lastSet EXCEPT ![id] = NoSet]
             /\ last' = [NoCall EXCEPT !.op = "touch", !.id = id,
                                       !.ret = "true", !.ttl = ttlMs]
  /\ UNCHANGED <<now, config, apart, metrics, cleanupInterval, heap, microtasks>>

\* -------------------------------------------------- sweeper and destroy
CleanupExpiredCountsScanned ==
  /\ microtasks = <<>>
  /\ Called
  /\ cleanupInterval
  /\ sessions' = SelectSeq(sessions, LAMBDA e : ~Expired(e, now))
  /\ metrics' = [metrics EXCEPT !.evictions = @ + Len(sessions)]
  /\ last' = [NoCall EXCEPT !.op = "sweep"]
  /\ UNCHANGED <<now, config, apart, cleanupInterval, heap, microtasks, lastSet>>

CleanupExpiredOrDue ==
  /\ microtasks = <<>>
  /\ Called
  /\ cleanupInterval
  /\ LET kept == SelectSeq(sessions, LAMBDA e : ~Expired(e, now + 1))
         cleaned == Len(sessions) - Len(kept)
     IN /\ sessions' = kept
        /\ metrics' = IF cleaned > 0
                      THEN [metrics EXCEPT !.evictions = @ + cleaned]
                      ELSE metrics
  /\ last' = [NoCall EXCEPT !.op = "sweep"]
  /\ UNCHANGED <<now, config, apart, cleanupInterval, heap, microtasks, lastSet>>

CleanupExpired ==
  /\ microtasks = <<>>
  /\ Called
  /\ cleanupInterval
  /\ LET kept == SelectSeq(sessions, LAMBDA e : ~Expired(e, now))
         cleaned == Len(sessions) - Len(kept)
     IN /\ sessions' = kept
        /\ metrics' = IF cleaned > 0
                      THEN [metrics EXCEPT !.evictions = @ + cleaned]
                      ELSE metrics
  /\ last' = [NoCall EXCEPT !.op = "sweep"]
  /\ UNCHANGED <<now, config, apart, cleanupInterval, heap, microtasks, lastSet>>

DestroyResetsMetrics ==
  /\ microtasks = <<>>
  /\ Called
  /\ cleanupInterval' = FALSE
  /\ sessions' = <<>>
  /\ metrics' = [hits |-> 0, misses |-> 0, sets |-> 0, deletes |-> 0,
                 evictions |-> 0]
  /\ lastSet' = [k \in AllKeys |-> NoSet]
  /\ last' = [NoCall EXCEPT !.op = "destroy"]
  /\ UNCHANGED <<now, config, apart, heap, microtasks>>

Destroy ==
  /\ microtasks = <<>>
  /\ Called
  /\ cleanupInterval' = FALSE
  /\ sessions' = <<>>
  /\ lastSet' = [k \in AllKeys |-> NoSet]
  /\ last' = [NoCall EXCEPT !.op = "destroy"]
  /\ UNCHANGED <<now, config, apart, metrics, heap, microtasks>>

\* ----------------------------------------------- the singleton functions
\* new SessionStore() is called with no argument: options = {}
NoOptions == [x \in {} |-> 0]

\* storeInstance = new SessionStore(opts)
NewStore(opts) ==
  /\ options' = opts
  /\ maxEntries' = OrNumber(opts, "maxEntries", DefaultMaxEntries)
  /\ defaultTTLMs' = OrNumber(opts, "defaultTTLMs", DefaultTTLMs)
  /\ evictionPolicy' = OrString(opts, "evictionPolicy", "lru")
  /\ sessions' = <<>>
  /\ metrics' = [hits |-> 0, misses |-> 0, sets |-> 0, deletes |-> 0,
                 evictions |-> 0]
  /\ cleanupInterval' = TRUE
  /\ lastSet' = [k \in AllKeys |-> NoSet]
  /\ storeInstance' = Len(retired') + 1

\* The replaced instance as destroy() leaves it.
Destroyed == [cleanupInterval |-> FALSE, size |-> 0]
Abandoned == [cleanupInterval |-> cleanupInterval, size |-> Len(sessions)]

InitSessionStoreNoDestroy(opts) ==
  /\ microtasks = <<>>
  /\ Called
  /\ retired' = IF storeInstance # 0 THEN Append(retired, Abandoned)
                ELSE retired
  /\ NewStore(opts)
  /\ last' = [NoCall EXCEPT !.op = "initSessionStore",
                            !.store = storeInstance']
  /\ UNCHANGED <<now, executor, heap, microtasks>>

InitSessionStore(opts) ==
  /\ microtasks = <<>>
  /\ Called
  /\ retired' = IF storeInstance # 0 THEN Append(retired, Destroyed)
                ELSE retired
  /\ NewStore(opts)
  /\ last' = [NoCall EXCEPT !.op = "initSessionStore",
                            !.store = storeInstance']
  /\ UNCHANGED <<now, executor, heap, microtasks>>

GetSessionStore ==
  /\ microtasks = <<>>
  /\ Called
  /\ retired' = retired
  /\ IF storeInstance = 0
     THEN NewStore(NoOptions)
     ELSE UNCHANGED <<config, storeInstance, sessions, metrics,
                      cleanupInterval, lastSet>>
  /\ last' = [NoCall EXCEPT !.op = "getSessionStore",
                            !.store = storeInstance']
  /\ UNCHANGED <<now, executor, heap, microtasks>>

\* ------------------------------------------------------------ runAnalysis
\* What llmService.analyze does: it resolves with a result or rejects with
\* one of two errors.
LLMOutcomes == {"ok", "E1", "E2"}
ResultOf(r) == IF r = 1 THEN "r1" ELSE "r2"

RECURSIVE NotCompletedFrom(_, _)
\* The steps from position i on whose status is not completed, in order.
NotCompletedFrom(state, i) ==
  IF i > MaxSteps THEN <<>>
  ELSE (IF state.steps[i].status # "completed" THEN <<i>> ELSE <<>>)
         \o NotCompletedFrom(state, i + 1)

NextIndexNoSkip(state, i) == IF i > MaxSteps THEN MaxSteps + 1 ELSE i

\* Where the for loop stops next: the first step from position i on that is
\* not completed, MaxSteps + 1 when there is none.
NextIndex(state, i) ==
  LET todo == NotCompletedFrom(state, i)
  IN IF todo = <<>> THEN MaxSteps + 1 ELSE Head(todo)

RunIdle(r) == [runs EXCEPT ![r] = IdleRun]

\* runAnalysis(session, apiKey) up to its first await.  valid says whether
\* the session and the API key pass the checks at the top.
RunStart(r, valid) ==
  /\ microtasks = <<>>
  /\ runs[r].pc = "idle"
  /\ Called
  /\ IF ~valid
     THEN /\ last' = [NoCall EXCEPT !.op = "runAnalysis", !.run = r,
                                    !.ret = "ANALYSIS_INPUT_ERROR"]
          /\ runs' = RunIdle(r)
          /\ UNCHANGED <<analysis, saves>>
     ELSE IF analysis.status = "completed"
     THEN /\ last' = [NoCall EXCEPT !.op = "runAnalysis", !.run = r,
                                    !.ret = "returned"]
          /\ runs' = RunIdle(r)
          /\ UNCHANGED <<analysis, saves>>
     ELSE IF analysis.status = "failed"
     THEN /\ last' = [NoCall EXCEPT !.op = "runAnalysis", !.run = r,
                                    !.ret = "ANALYSIS_CONFLICT"]
          /\ runs' = RunIdle(r)
          /\ UNCHANGED <<analysis, saves>>
     ELSE /\ analysis' =
               [analysis EXCEPT
                  !.startedAt = IF Truthy(@) THEN @ ELSE ToISOString(now),
                  !.status = "in-progress"]
          /\ saves' = saves + 1
          /\ runs' = [runs EXCEPT ![r] =
                        [pc |-> "loop", index |-> 1, calls |-> <<>>,
                         todo |-> NotCompletedFrom(analysis, 1)]]
          /\ last' = [NoCall EXCEPT !.op = "runAnalysis", !.run = r,
                                    !.ret = "await"]
  /\ UNCHANGED <<now, config, singleton, sessions, metrics, cleanupInterval,
                 heap, microtasks, lastSet>>

\* The loop skips the completed steps, marks the next one in-progress and
\* saves.
RunBeginStep(r) ==
  /\ runs[r].pc = "loop"
  /\ LET i == NextIndex(analysis, runs[r].index)
     IN /\ i <= MaxSteps
        /\ analysis' = [analysis EXCEPT !.steps[i].status = "in-progress",
                                        !.currentStepIndex = i,
                                        !.error = "null"]
        /\ runs' = [runs EXCEPT ![r].pc = "prompt", ![r].index = i]
  /\ saves' = saves + 1
  /\ last' = [NoCall EXCEPT !.op = "runAnalysis", !.run = r, !.ret = "await"]
  /\ UNCHANGED <<now, config, singleton, sessions, metrics, cleanupInterval,
                 heap, microtasks, budget, lastSet>>

\* After the save: llmService.analyze is called for the step.
RunCallLLM(r) ==
  /\ runs[r].pc = "prompt"
  /\ runs' = [runs EXCEPT ![r].pc = "llm",
                          ![r].calls = Append(@, runs[r].index)]
  /\ last' = [NoCall EXCEPT !.op = "runAnalysis", !.run = r, !.ret = "await"]
  /\ UNCHANGED <<now, config, singleton, sessions, metrics, cleanupInterval,
                 heap, microtasks, budget, lastSet, analysis, saves>>

RunLLMReturnsNoSave(r, outcome) ==
  /\ runs[r].pc = "llm"
  /\ LET i == runs[r].index
     IN IF outcome = "ok"
        THEN /\ analysis' = [analysis EXCEPT
                               !.steps[i].result = ResultOf(r),
                               !.steps[i].status = "completed"]
             /\ runs' = [runs EXCEPT ![r].pc = "loop", ![r].index = i + 1]
             /\ last' = [NoCall EXCEPT !.op = "runAnalysis", !.run = r,
                                       !.ret = "await"]
        ELSE /\ analysis' = [analysis EXCEPT
                               !.steps[i].status = "failed",
                               !.status = "failed",
                               !.error = outcome]
             /\ runs' = [runs EXCEPT ![r].pc = "idle"]
             /\ last' = [NoCall EXCEPT !.op = "runAnalysis", !.run = r,
                                       !.ret = outcome]
  /\ saves' = saves + (IF outcome = "ok" THEN 1 ELSE 0)
  /\ UNCHANGED <<now, config, singleton, sessions, metrics, cleanupInterval,
                 heap, microtasks, budget, lastSet>>

\* The call resolves (the result is stored, the step completed, the session
\* saved) or rejects (the catch block, which rethrows).
RunLLMReturns(r, outcome) ==
  /\ runs[r].pc = "llm"
  /\ LET i == runs[r].index
     IN IF outcome = "ok"
        THEN /\ analysis' = [analysis EXCEPT
                               !.steps[i].result = ResultOf(r),
                               !.steps[i].status = "completed"]
             /\ runs' = [runs EXCEPT ![r].pc = "loop", ![r].index = i + 1]
             /\ last' = [NoCall EXCEPT !.op = "runAnalysis", !.run = r,
                                       !.ret = "await"]
        ELSE /\ analysis' = [analysis EXCEPT
                               !.steps[i].status = "failed",
                               !.status = "failed",
                               !.error = outcome]
             /\ runs' = [runs EXCEPT ![r].pc = "idle"]
             /\ last' = [NoCall EXCEPT !.op = "runAnalysis", !.run = r,
                                       !.ret = outcome]
  /\ saves' = saves + 1
  /\ UNCHANGED <<now, config, singleton, sessions, metrics, cleanupInterval,
                 heap, microtasks, budget, lastSet>>

\* The loop is through: the analysis is completed and saved, the method
\* files are written (filesOk) or not, and the session is saved again.
RunFinish(r, filesOk) ==
  /\ runs[r].pc = "loop"
  /\ NextIndex(analysis, runs[r].index) > MaxSteps
  /\ analysis' =
       [analysis EXCEPT
          !.status = "completed",
          !.completedAt = ToISOString(now),
          !.files = IF filesOk THEN TRUE ELSE @,
          !.error = IF filesOk \/ @ # "null" THEN @
                    ELSE "Failed to write analysis files"]
  /\ saves' = saves + 2
  /\ runs' = [runs EXCEPT ![r].pc = "idle"]
  /\ last' = [NoCall EXCEPT !.op = "runAnalysis", !.run = r,
                            !.ret = "returned"]
  /\ UNCHANGED <<now, config, singleton, sessions, metrics, cleanupInterval,
                 heap, microtasks, budget, lastSet>>

\* ------------------------------------- what a caller does with references
\* const s = await store.get(id); s.top = v
GetThenMutate(id, v) ==
  /\ microtasks = <<>>
  /\ Called
  /\ LET r == GetResult(id)
     IN /\ r.ret = "value"
        /\ sessions' =
             [r.sessions EXCEPT ![IndexOf(r.sessions, id, 1)].session.top = v]
        /\ metrics' = r.metrics
        /\ last' = [NoCall EXCEPT !.op = "get", !.id = id, !.ret = r.ret,
                                  !.value = r.value]
  /\ UNCHANGED <<now, config, apart, cleanupInterval, heap, microtasks, lastSet>>

\* session.inputs.x = v on an object the caller passed to set earlier
MutateInput(a, v) ==
  /\ microtasks = <<>>
  /\ heap[a] # v
  /\ heap' = [heap EXCEPT ![a] = v]
  /\ last' = [NoCall EXCEPT !.op = "mutate"]
  /\ UNCHANGED <<now, config, apart, sessions, metrics, cleanupInterval, microtasks,
                 budget, lastSet>>

\* --------------------------------------- calls that do not overlap in time
Next ==
  \/ Tick
  \/ \E id \in Keys, ttlMs \in TTLArgs, session \in SessionArgs :
       Set(id, id, session, ttlMs)
  \/ \E gen \in Keys : Set(NoId, gen, PlainSession, 0)
  \/ \E id \in Keys : Get(id)
  \/ \E id \in Keys : Exists(id)
  \/ \E id \in Keys : Del(id)
  \/ Clear
  \/ \E id \in Keys, ttlMs \in TTLArgs : Touch(id, ttlMs)
  \/ CleanupExpired
  \/ Destroy

Spec == Init /\ [][Next]_vars

\* ------------------------- eviction: three keys on a store of two entries
EvictOptions ==
  [maxEntries : {2}, defaultTTLMs : {2}, evictionPolicy : {"lru", "ttl"}]

InitEvict == \E opts \in EvictOptions : Start(opts, MaxEvictCalls)

NextEvict ==
  \/ Tick
  \/ \E id \in AllKeys, ttlMs \in TTLArgs :
       Set(id, id, PlainSession, ttlMs)
  \/ \E id \in AllKeys : Get(id)
  \/ \E id \in AllKeys : Exists(id)
  \/ \E id \in AllKeys : Touch(id, 0)

SpecEvict == InitEvict /\ [][NextEvict]_vars

\* ------------------------------------ set calls in flight at the same time
NextConc ==
  \/ Tick
  \/ \E id \in AllKeys, ttlMs \in TTLArgs : SetCall(id, id, PlainSession, ttlMs)
  \/ SetResume

SpecConc == Init /\ [][NextConc]_vars

\* ------------------------------ callers that keep and mutate what they got
NextAlias ==
  \/ \E id \in Keys, top \in Vals :
       Set(id, id, [PlainSession EXCEPT !.top = top], 0)
  \/ \E id \in Keys : Get(id)
  \/ \E id \in Keys, v \in Vals : GetThenMutate(id, v)
  \/ \E a \in Addrs, v \in Vals : MutateInput(a, v)

SpecAlias == Init /\ [][NextAlias]_vars

\* ------------------------------------------ construction with any options
AnyOptions ==
  [maxEntries : {-1, 0, 1}, evictionPolicy : {"lru", "ttl", "fifo"}]
  \cup [maxEntries : {-1, 0, 1}]
  \cup [evictionPolicy : {"lru", "ttl", "fifo"}]

InitCtor == \E opts \in AnyOptions : Start(opts, MaxCalls)

NextCtor ==
  \/ Tick
  \/ \E id \in Keys : Set(id, id, PlainSession, 1)
  \/ \E id \in Keys : Get(id)

SpecCtor == InitCtor /\ [][NextCtor]_vars

\* ------------------------------------- every method, with stats() between
InitStats == \E opts \in TestOptions : Start(opts, MaxStatsCalls)

NextStats ==
  \/ Tick
  \/ \E id \in Keys : Set(id, id, PlainSession, 1)
  \/ \E id \in Keys : Get(id)
  \/ \E id \in Keys : Exists(id)
  \/ \E id \in Keys : Del(id)
  \/ Clear
  \/ Stats
  \/ \E id \in Keys : Touch(id, 0)
  \/ CleanupExpired
  \/ Destroy

SpecStats == InitStats /\ [][NextStats]_vars

\* ------------------------- one key, stored, fetched, removed and set again
\* The session passed to set is a new one or one that carries the createdAt
\* of an entry stored at time 0, as the object a get returned then does.
ReinsertArgs == {PlainSession, [PlainSession EXCEPT !.createdAt = ToISOString(0)]}

InitReinsert == \E opts \in TestOptions : Start(opts, MaxReinsertCalls)

NextReinsert ==
  \/ Tick
  \/ \E session \in ReinsertArgs : Set("k1", "k1", session, 0)
  \/ Get("k1")
  \/ Del("k1")
  \/ Clear
  \/ CleanupExpired

SpecReinsert == InitReinsert /\ [][NextReinsert]_vars

\* ------------------------------------------- set and touch with any TTL
NextTTL ==
  \/ Tick
  \/ \E id \in Keys, ttlMs \in SignedTTLArgs : Set(id, id, PlainSession, ttlMs)
  \/ \E id \in Keys, ttlMs \in SignedTTLArgs : Touch(id, ttlMs)
  \/ \E id \in Keys : Get(id)

SpecTTL == Init /\ [][NextTTL]_vars

\* ------------------------------------ sets with TTL 1 and touches after
NextTouch ==
  \/ Tick
  \/ \E id \in Keys : Set(id, id, PlainSession, 1)
  \/ \E id \in Keys, ttlMs \in TTLArgs : Touch(id, ttlMs)
  \/ \E id \in Keys : Get(id)
  \/ \E id \in Keys : Del(id)
  \/ CleanupExpired

SpecTouch == Init /\ [][NextTouch]_vars

\* ------------------------- a full store that holds an expired entry
\* k1 is set with TTL 1 and expires within the horizon; k2 and k3 are set
\* with the default TTL, which is longer than the horizon, and stay live.
StaleOptions ==
  [maxEntries : {2}, defaultTTLMs : {MaxTime + 1},
   evictionPolicy : {"lru", "ttl"}]

InitStale == \E opts \in StaleOptions : Start(opts, MaxEvictCalls)

NextStale ==
  \/ Tick
  \/ Set("k1", "k1", PlainSession, 1)
  \/ \E id \in {"k2", "k3"} : Set(id, id, PlainSession, 0)
  \/ \E id \in AllKeys : Get(id)

SpecStale == InitStale /\ [][NextStale]_vars

\* ---------------------------------- stores made by the singleton functions
\* The module is loaded and storeInstance is null: there is no store yet.
NoStore ==
  /\ options = NoOptions
  /\ maxEntries = 0 /\ defaultTTLMs = 0 /\ evictionPolicy = "none"
  /\ sessions = <<>>
  /\ metrics = [hits |-> 0, misses |-> 0, sets |-> 0, deletes |-> 0,
                evictions |-> 0]
  /\ cleanupInterval = FALSE

InitSingleton ==
  /\ now = 0
  /\ NoStore
  /\ storeInstance = 0
  /\ retired = <<>>
  /\ analysis = InitialAnalysisState
  /\ runs = [r \in Runs |-> IdleRun]
  /\ saves = 0
  /\ heap = [a \in Addrs |-> "v1"]
  /\ microtasks = <<>>
  /\ budget = MaxSingletonCalls
  /\ lastSet = [k \in AllKeys |-> NoSet]
  /\ last = NoCall

SingletonOptions == [maxEntries : {1, 2}]

NextSingleton ==
  \/ \E opts \in SingletonOptions : InitSessionStore(opts)
  \/ GetSessionStore
  \/ storeInstance # 0 /\ \E id \in Keys : Set(id, id, PlainSession, 1)
  \/ storeInstance # 0 /\ \E id \in Keys : Get(id)
  \/ storeInstance # 0 /\ Destroy

SpecSingleton == InitSingleton /\ [][NextSingleton]_vars

\* ------------------------------------------ runAnalysis, one call at a time
\* A new analysis, or one whose first step is completed already.
Resumed ==
  [InitialAnalysisState EXCEPT !.status = "in-progress",
                               !.startedAt = ToISOString(0),
                               !.steps[1] = CompletedStep]

RunOptions ==
  [maxEntries : {5}, defaultTTLMs : {1000}, evictionPolicy : {"lru"}]

InitRun ==
  \E opts \in RunOptions, state \in {InitialAnalysisState, Resumed} :
    StartWith(opts, MaxRunCalls, state)

RunSteps(r) ==
  \/ \E valid \in BOOLEAN : RunStart(r, valid)
  \/ RunBeginStep(r)
  \/ RunCallLLM(r)
  \/ \E outcome \in LLMOutcomes : RunLLMReturns(r, outcome)
  \/ \E filesOk \in BOOLEAN : RunFinish(r, filesOk)

NextRun == Tick \/ RunSteps(1)

SpecRun == InitRun /\ [][NextRun]_vars

\* ------------------------------- runAnalysis, two calls that may overlap
NextRunConc == \E r \in Runs : RunSteps(r)

SpecRunConc == InitRun /\ [][NextRunConc]_vars

\* ================================================================= claims
Stored(id) == MapHas(sessions, id)
Deadline(id) == lastSet[id].at + lastSet[id].ttl

\* C1: when set calls are in flight at the same time on a full store, the
\* capacity check, the eviction and the insertion of each call act as one
\* unit: once no call is suspended the store holds at most maxEntries
\* entries.
C1_AtomicEvictInsert == microtasks = <<>> => Len(sessions) <= maxEntries

C3_AbsentFromDeadline ==
  (last.op = "get" /\ lastSet[last.id] # NoSet /\ now >= Deadline(last.id))
    => last.ret = "null"

\* C4: a get of key k before s + t, where the latest set of k was made at
\* time s with TTL t and k was not touched or removed since, returns the
\* session with the payload of that set.
C4_ReadYourWrite ==
  (last.op = "get" /\ lastSet[last.id] # NoSet /\ now < Deadline(last.id))
    => /\ last.ret = "value"
       /\ last.value.id = last.id
       /\ last.value.top = lastSet[last.id].top
       /\ last.value.inputs = lastSet[last.id].inputs

C4_Witness ==
  /\ last.op = "get" /\ last.ret = "value"
  /\ lastSet[last.id] # NoSet
  /\ lastSet[last.id].at < now /\ now < Deadline(last.id)
  /\ last.value.top = "v2"
  /\ metrics.sets >= 2

\* C5: touch of a key whose entry is stored and has expired returns false
\* and leaves the entry expired.
C5_TouchExpiredFails ==
  [][(/\ last'.op = "touch"
      /\ Stored(last'.id)
      /\ Expired(MapGet(sessions, last'.id), now))
       => (last'.ret = "false" /\ sessions' = sessions)]_vars

\* C6: a set of a session larger than the size limit throws the size error
\* and changes neither the entries nor the metrics.
C6_OversizeRejected ==
  [][(last'.op = "set" /\ last'.size > SizeLimit)
       => (/\ last'.ret = "SizeError"
           /\ sessions' = sessions
           /\ metrics' = metrics)]_vars

C6_Witness ==
  /\ last.op = "set" /\ last.ret = "SizeError"
  /\ Len(sessions) = maxEntries /\ ~Stored(last.id)

\* C7: get returns the session as it was last set, whatever the caller did
\* to the objects it got from get or passed to set.
C7_GetReturnsCopy ==
  (last.op = "get" /\ last.ret = "value" /\ lastSet[last.id] # NoSet)
    => /\ last.value.top = lastSet[last.id].top
       /\ last.value.inputs = lastSet[last.id].inputs

\* C8: no store runs with a maxEntries option that is not a positive
\* integer or with an evictionPolicy option other than lru and ttl.
ValidOptions ==
  /\ "maxEntries" \in DOMAIN options => options.maxEntries >= 1
  /\ "evictionPolicy" \in DOMAIN options
       => options.evictionPolicy \in {"lru", "ttl"}

C8_InvalidOptionsRejected == last.op = "set" => ValidOptions

\* The step was a set that evicted the entry at position i of the Map: that
\* entry is gone afterwards, every other entry is kept as it was, and the
\* new entry is the only one added.
EvictedOnly(i) ==
  /\ i # 0
  /\ ~MapHas(sessions', sessions[i].id)
  /\ Len(sessions') = Len(sessions)
  /\ MapHas(sessions', last'.id)
  /\ \A j \in 1..Len(sessions) :
       j # i => /\ MapHas(sessions', sessions[j].id)
                /\ MapGet(sessions', sessions[j].id) = sessions[j]

\* lastAccessed of an entry is the time of the last set, successful get or
\* exists, or touch of its key.
LastAccessedStep ==
  /\ (\/ last'.op \in {"set", "exists"} /\ last'.ret \in {"id", "true"}
      \/ last'.op \in {"get", "touch"} /\ last'.ret \in {"value", "true"})
       => /\ MapHas(sessions', last'.id)
          /\ MapGet(sessions', last'.id).lastAccessed = now
  /\ \A j \in 1..Len(sessions) :
       (sessions[j].id # last'.id /\ MapHas(sessions', sessions[j].id))
         => MapGet(sessions', sessions[j].id).lastAccessed
              = sessions[j].lastAccessed

LruVictimStep ==
  (last'.op = "set" /\ last'.victim # NoId /\ evictionPolicy = "lru")
    => LET i == IndexOf(sessions, last'.victim, 1)
       IN /\ EvictedOnly(i)
          /\ \A j \in 1..Len(sessions) :
               /\ sessions[j].lastAccessed >= sessions[i].lastAccessed
               /\ j < i => sessions[j].lastAccessed > sessions[i].lastAccessed

\* C9: under lru a set that evicts removes the entry with the oldest
\* lastAccessed, the earliest inserted among equals, and keeps every other
\* entry; lastAccessed is the time of the last set, successful get or
\* touch.  So the first of maxEntries keys, when the others were read after
\* it, is the one evicted.
C9_LruVictim == [][LruVictimStep /\ LastAccessedStep]_vars

C9_Witness ==
  /\ evictionPolicy = "lru"
  /\ last.op = "set" /\ last.id = "k3" /\ last.victim = "k1"
  /\ Len(sessions) = 2 /\ sessions[1].id = "k2"
  /\ sessions[1].lastAccessed > ParseDate(sessions[1].session.updatedAt)

\* The stored keys were set, in the order they are stored, with strictly
\* increasing TTLs and have not been touched since.
IncreasingTTLs ==
  /\ \A j \in 1..Len(sessions) : lastSet[sessions[j].id] # NoSet
  /\ \A j \in 1..(Len(sessions) - 1) :
       /\ lastSet[sessions[j].id].ttl < lastSet[sessions[j + 1].id].ttl
       /\ lastSet[sessions[j].id].at <= lastSet[sessions[j + 1].id].at

TtlVictimStep ==
  (last'.op = "set" /\ last'.victim # NoId /\ evictionPolicy = "ttl")
    => LET i == IndexOf(sessions, last'.victim, 1)
       IN /\ EvictedOnly(i)
          /\ \A j \in 1..Len(sessions) :
               ParseDate(sessions[j].expiresAt)
                 >= ParseDate(sessions[i].expiresAt)
          /\ IncreasingTTLs => i = 1

\* C10: under ttl a set that evicts removes the entry with the earliest
\* expiresAt and keeps every other entry; when the stored keys were set
\* with strictly increasing TTLs, that is the key with the smallest TTL.
C10_TtlVictim == [][TtlVictimStep]_vars

C10_Witness ==
  /\ evictionPolicy = "ttl"
  /\ last.op = "set" /\ last.id = "k3" /\ last.victim = "k1"
  /\ Len(sessions) = 2 /\ sessions[1].id = "k2"
  /\ lastSet["k2"] # NoSet /\ lastSet["k2"].ttl = 2
  /\ sessions[1].lastAccessed < now

\* C11: a set that succeeds adds exactly 1 to evictions and removes exactly
\* one entry when its key is not stored and the store holds maxEntries
\* entries; in every other case, a set of a stored key on a full store
\* included, it leaves evictions alone and removes no entry.
C11_EvictsExactlyWhenNewAndFull ==
  [][(last'.op = "set" /\ last'.ret = "id")
       => IF ~Stored(last'.id) /\ Len(sessions) >= maxEntries
          THEN /\ metrics'.evictions = metrics.evictions + 1
               /\ Len(sessions') = Len(sessions)
               /\ Cardinality(MapKeys(sessions) \ MapKeys(sessions')) = 1
          ELSE /\ metrics'.evictions = metrics.evictions
               /\ MapKeys(sessions) \subseteq MapKeys(sessions')]_vars

C11_Witness ==
  /\ last.op = "set" /\ last.ret = "id" /\ last.victim = NoId
  /\ maxEntries = 1 /\ Len(sessions) = 1
  /\ metrics.sets = 2 /\ metrics.evictions = 0
  /\ budget = MaxCalls - 2

\* The entry of id is stored and its expiresAt has not passed.
Live(id) ==
  /\ Stored(id)
  /\ ~(/\ MapGet(sessions, id).expiresAt # NullTime
       /\ MapGet(sessions, id).expiresAt[2] < now)

\* What a lookup of id does to the store: on an absent key a miss and
\* nothing else; on an expired key the removal of its entry and a miss; on
\* a live key a hit and the refresh of its lastAccessed.
LookupStep(id) ==
  /\ metrics'.sets = metrics.sets /\ metrics'.evictions = metrics.evictions
  /\ IF Live(id)
     THEN /\ metrics'.hits = metrics.hits + 1
          /\ metrics'.misses = metrics.misses
          /\ Len(sessions') = Len(sessions)
          /\ \A j \in 1..Len(sessions) :
               sessions'[j] = IF sessions[j].id = id
                              THEN [sessions[j] EXCEPT !.lastAccessed = now]
                              ELSE sessions[j]
     ELSE /\ metrics'.misses = metrics.misses + 1
          /\ metrics'.hits = metrics.hits
          /\ ~MapHas(sessions', id)
          /\ sessions' = SelectSeq(sessions, LAMBDA e : e.id # id)

\* C12: a get adds one to exactly one of hits and misses: on an absent or
\* expired key it removes the entry if there is one and counts a miss, on a
\* live key it counts a hit, refreshes lastAccessed and removes nothing;
\* hits + misses grows by one with each get or exists and with nothing
\* else.
C12_GetCountsOneHitOrMiss ==
  [][/\ last'.op = "get"
          => /\ LookupStep(last'.id)
             /\ last'.ret = IF Live(last'.id) THEN "value" ELSE "null"
     /\ metrics'.hits + metrics'.misses
          = metrics.hits + metrics.misses
              + (IF last'.op \in {"get", "exists"} THEN 1 ELSE 0)]_vars

C12_Witness ==
  /\ last.op = "get" /\ last.ret = "null"
  /\ metrics.hits = 1 /\ metrics.misses = 1 /\ metrics.deletes = 1
  /\ budget = MaxCalls - 3

\* C13: exists(k) returns true exactly when get(k) from the same state
\* returns a session, and it leaves the entries and the metrics that get(k)
\* leaves: the same hit or miss, the same refresh of lastAccessed, the same
\* removal of an expired entry.
C13_ExistsActsAsGet ==
  [][last'.op = "exists"
       => /\ last'.ret = "true" <=> GetResult(last'.id).ret = "value"
          /\ last'.ret = "true" <=> Live(last'.id)
          /\ sessions' = GetResult(last'.id).sessions
          /\ metrics' = GetResult(last'.id).metrics
          /\ LookupStep(last'.id)]_vars

C13_Witness ==
  /\ last.op = "exists" /\ last.ret = "false"
  /\ metrics.hits = 1 /\ metrics.misses = 1 /\ metrics.deletes = 1
  /\ metrics.sets = 1 /\ budget = MaxCalls - 3

\* C14: del(k) returns true exactly when k was stored; then the entry of k
\* is removed, every other entry is kept and deletes grows by 1; otherwise
\* the entries and all counters stay as they were.  An entry appears only
\* by a set of its key, and a get of a key that is not stored returns null,
\* so get(k) returns null from del(k) until k is set again.
C14_DelRemovesAndCounts ==
  [][/\ last'.op = "del"
          => IF Stored(last'.id)
             THEN /\ last'.ret = "true"
                  /\ sessions' = SelectSeq(sessions,
                                           LAMBDA e : e.id # last'.id)
                  /\ Len(sessions') = Len(sessions) - 1
                  /\ metrics' = [metrics EXCEPT !.deletes = @ + 1]
             ELSE /\ last'.ret = "false"
                  /\ sessions' = sessions
                  /\ metrics' = metrics
     /\ \A k \in Keys :
          (~Stored(k) /\ MapHas(sessions', k))
            => (last'.op = "set" /\ last'.id = k)
     /\ (last'.op = "get" /\ ~Stored(last'.id)) => last'.ret = "null"]_vars

C14_Witness ==
  /\ last.op = "del" /\ last.ret = "true"
  /\ metrics.deletes = 1 /\ metrics.sets = 2
  /\ Len(sessions) = 1 /\ sessions[1].id # last.id

\* C15: clear() removes every entry, however many there are, and changes
\* none of the counters; stats() called right after it reports entryCount 0
\* and the counters as they were before the clear.
C15_ClearEmptiesAndCountsNothing ==
  [][/\ last'.op = "clear" => (sessions' = <<>> /\ metrics' = metrics)
     /\ (last.op = "clear" /\ last'.op = "stats")
          => /\ last'.stats.entryCount = 0
             /\ \A c \in DOMAIN metrics : last'.stats[c] = metrics[c]]_vars

C15_Witness ==
  /\ last.op = "stats" /\ last.stats.entryCount = 0
  /\ last.stats.sets = 2 /\ last.stats.deletes = 0
  /\ last.stats.evictions = 0
  /\ maxEntries = 2 /\ now = 0 /\ cleanupInterval
  /\ budget = MaxStatsCalls - 4

\* C17: no counter of a store ever decreases, whatever the operation, clear,
\* destroy and sweeper passes included; stats() changes no counter and no
\* entry.
C17_CountersNeverDecrease ==
  [][/\ \A c \in DOMAIN metrics : metrics'[c] >= metrics[c]
     /\ last'.op = "stats" => (sessions' = sessions /\ metrics' = metrics)
    ]_vars

C17_Witness ==
  /\ last.op = "destroy" /\ sessions = <<>>
  /\ metrics.sets >= 1 /\ metrics.hits >= 1 /\ metrics.deletes >= 1

\* The expiresAt of the entry has passed at the present time.
Passed(entry) == entry.expiresAt # NullTime /\ entry.expiresAt[2] < now

\* C16: a sweeper pass removes every stored entry whose expiresAt has
\* passed and no other, leaves each remaining entry as it was and in its
\* place, creates none, adds the number of removed entries to evictions and
\* leaves hits, misses, sets and deletes alone.
C16_SweepRemovesExactlyExpired ==
  [][last'.op = "sweep"
       => /\ \A j \in 1..Len(sessions) :
               IF Passed(sessions[j])
               THEN ~MapHas(sessions', sessions[j].id)
               ELSE /\ MapHas(sessions', sessions[j].id)
                    /\ MapGet(sessions', sessions[j].id) = sessions[j]
          /\ MapKeys(sessions') \subseteq MapKeys(sessions)
          /\ Len(sessions') = Cardinality(MapKeys(sessions'))
          /\ metrics' = [metrics EXCEPT
                           !.evictions = @ + Len(sessions) - Len(sessions')]
    ]_vars

C16_Witness ==
  /\ last.op = "sweep" /\ maxEntries = 2
  /\ metrics.sets = 2 /\ metrics.evictions = 1
  /\ Len(sessions) = 1 /\ sessions[1].expiresAt[2] = now

\* C18: a set of a key whose entry is stored and has not expired keeps the
\* createdAt of that entry, whether the session passed carries a createdAt
\* or not.
C18_SetPreservesCreatedAt ==
  [][(/\ last'.op = "set" /\ last'.ret = "id"
      /\ Stored(last'.id)
      /\ MapGet(sessions, last'.id).expiresAt[2] > now)
       => MapGet(sessions', last'.id).session.createdAt
            = MapGet(sessions, last'.id).session.createdAt]_vars

\* C19: once the entry of a key was removed, by del, expiry or clear, a
\* later set of that key stores an entry whose createdAt is the time of that
\* set, also when the session passed is one that a get returned before the
\* removal.
C19_ReinsertHasFreshCreatedAt ==
  [][(/\ last'.op = "set" /\ last'.ret = "id" /\ last'.id = "k1"
      /\ ~Stored("k1")
      /\ metrics.sets >= 1 /\ metrics.hits >= 1)
       => MapGet(sessions', "k1").session.createdAt = ToISOString(now)]_vars

\* C20: every stored entry has an expiresAt later than its updatedAt, after
\* set and touch calls with a TTL that is omitted, zero, positive or
\* negative.
C20_ExpiresAfterUpdated ==
  \A j \in 1..Len(sessions) :
    ParseDate(sessions[j].expiresAt) > ParseDate(sessions[j].session.updatedAt)

\* The step was a touch of a key whose entry is stored and has not expired:
\* it returns true, moves the expiry of the entry to the present time plus
\* the TTL given, or plus the default TTL when none is given, and leaves the
\* payload, the other entries and all counters as they were.
TouchLiveStep ==
  (last'.op = "touch" /\ Live(last'.id))
    => LET i == IndexOf(sessions, last'.id, 1)
           t2 == IF last'.ttl = 0 THEN defaultTTLMs ELSE last'.ttl
       IN /\ last'.ret = "true"
          /\ Len(sessions') = Len(sessions)
          /\ sessions'[i].expiresAt = ToISOString(now + t2)
          /\ sessions'[i].session.expiresAt = ToISOString(now + t2)
          /\ sessions'[i].session.top = sessions[i].session.top
          /\ sessions'[i].session.inputs = sessions[i].session.inputs
          /\ sessions'[i].session.createdAt = sessions[i].session.createdAt
          /\ \A j \in 1..Len(sessions) : j # i => sessions'[j] = sessions[j]
          /\ metrics' = metrics

TouchAbsentStep ==
  (last'.op = "touch" /\ ~Stored(last'.id))
    => (last'.ret = "false" /\ sessions' = sessions /\ metrics' = metrics)

\* Between calls an entry keeps its expiry unless its key is set or touched,
\* and a get of a stored key before its expiry returns its session.
RetrievableUntilExpiry ==
  /\ \A j \in 1..Len(sessions) :
       (MapHas(sessions', sessions[j].id)
          /\ ~(last'.op \in {"set", "touch"} /\ last'.id = sessions[j].id))
         => MapGet(sessions', sessions[j].id).expiresAt = sessions[j].expiresAt
  /\ (/\ last'.op = "get" /\ Stored(last'.id)
      /\ now < ParseDate(MapGet(sessions, last'.id).expiresAt))
       => (/\ last'.ret = "value"
           /\ last'.value.top = MapGet(sessions, last'.id).session.top)

\* C21: touch(k, t2) at time s on a live key returns true, sets the expiry
\* to s + t2 (s + the default TTL when t2 is omitted), and leaves the payload
\* and the five counters alone; k is then returned by get at every time
\* before s + t2, also after the expiry it had before; touch of an absent
\* key returns false and changes nothing.
C21_TouchExtends ==
  [][TouchLiveStep /\ TouchAbsentStep /\ RetrievableUntilExpiry]_vars

\* Every set here has TTL 1 and no createdAt, so the expiry an entry got
\* from its set is createdAt + 1; the get is later than that and succeeds.
C21_Witness ==
  /\ last.op = "get" /\ last.ret = "value"
  /\ now > ParseDate(last.value.createdAt) + 1
  /\ now < ParseDate(last.value.expiresAt)

C23_HitRate ==
  last.op = "stats"
    => /\ IF metrics.hits + metrics.misses = 0
          THEN last.stats.hitRate = <<0, 1>>
          ELSE /\ last.stats.hitRate[2] > 0
               /\ last.stats.hitRate[1] * (metrics.hits + metrics.misses)
                    = metrics.hits * last.stats.hitRate[2]
       /\ last.stats.entryCount = Len(sessions)
       /\ last.stats.maxEntries = maxEntries

C23_Witness ==
  /\ last.op = "stats" /\ last.stats.hits = 1 /\ last.stats.misses = 1
  /\ last.stats.hitRate = <<1, 2>> /\ last.stats.entryCount = 1

\* C28: the number of stored entries plus deletes plus evictions is at most
\* sets, in every state, after clear and destroy as well.
C28_RemovalsBoundedBySets ==
  Len(sessions) + metrics.deletes + metrics.evictions <= metrics.sets

C28_Witness ==
  /\ Len(sessions) = 1 /\ metrics.deletes = 1 /\ metrics.evictions = 1
  /\ metrics.sets = 3

\* The stored entries whose expiresAt has passed.
PassedKeys == {sessions[j].id : j \in {i \in 1..Len(sessions) : Passed(sessions[i])}}

\* C29: an expired entry that get or exists finds is removed with deletes
\* and misses each one higher and evictions as before; the expired entries
\* that a sweeper pass finds are removed with evictions higher by their
\* number and deletes as before.  So each is counted once, in one of the
\* two counters.
C29_ExpiredCountedOnce ==
  [][/\ (last'.op \in {"get", "exists"} /\ last'.id \in PassedKeys)
          => /\ ~MapHas(sessions', last'.id)
             /\ metrics'.deletes = metrics.deletes + 1
             /\ metrics'.misses = metrics.misses + 1
             /\ metrics'.evictions = metrics.evictions
     /\ last'.op = "sweep"
          => /\ MapKeys(sessions') = MapKeys(sessions) \ PassedKeys
             /\ metrics'.evictions
                  = metrics.evictions + Cardinality(PassedKeys)
             /\ metrics'.deletes = metrics.deletes]_vars

C29_Witness ==
  /\ last.op = "sweep" /\ maxEntries = 2 /\ sessions = <<>>
  /\ metrics.sets = 2 /\ metrics.misses = 1
  /\ metrics.deletes = 1 /\ metrics.evictions = 1

\* C30: a set of a key that is not stored evicts exactly when the number of
\* stored entries, expired ones included, is at least maxEntries, and the
\* victim is the one the policy names among all stored entries, expired or
\* not; under lru a live entry is evicted while an expired one stays.
C30_CapacityCountsExpired ==
  [][/\ (last'.op = "set" /\ last'.ret = "id")
          => (last'.victim # NoId
                <=> (~Stored(last'.id) /\ Len(sessions) >= maxEntries))
     /\ LruVictimStep
     /\ TtlVictimStep]_vars

\* The victim is k2 or k3, live by its TTL, and the expired k1 is kept.
C30_Witness ==
  /\ evictionPolicy = "lru"
  /\ last.op = "set" /\ last.victim \in {"k2", "k3"}
  /\ Stored("k1") /\ Passed(MapGet(sessions, "k1"))
  /\ Len(sessions) = maxEntries

\* The stores made by the singleton functions whose sweeper timer is armed.
ActiveSweepers ==
  Cardinality({i \in 1..Len(retired) : retired[i].cleanupInterval})
    + (IF storeInstance # 0 /\ cleanupInterval THEN 1 ELSE 0)

\* C24: initSessionStore(options) makes a store with the options given and
\* makes it the singleton; the instance that was the singleton before is
\* destroyed, its timer cancelled and its entries cleared; getSessionStore()
\* then returns the new instance and leaves it as it is.  At most one store
\* made by these functions has an armed sweeper timer.
C24_SingletonReplaced ==
  [][/\ last'.op = "initSessionStore"
          => /\ maxEntries' = options'.maxEntries
             /\ sessions' = <<>> /\ cleanupInterval'
             /\ storeInstance' # storeInstance
             /\ last'.store = storeInstance'
             /\ storeInstance # 0
                  => /\ Len(retired') = Len(retired) + 1
                     /\ ~retired'[Len(retired')].cleanupInterval
                     /\ retired'[Len(retired')].size = 0
     /\ (last'.op = "getSessionStore" /\ storeInstance # 0)
          => /\ last'.store = storeInstance
             /\ UNCHANGED <<storeInstance, config, sessions, metrics,
                            cleanupInterval>>
     /\ ActiveSweepers' <= 1]_vars

C24_Witness ==
  /\ last.op = "getSessionStore" /\ last.store = 2
  /\ Len(retired) = 1 /\ cleanupInterval
  /\ Len(sessions) = 1 /\ budget = MaxSingletonCalls - 4

\* The LLM calls of the invocation so far are the first of the steps that
\* were not completed when it started, each once, in order.
CallsFollowTodo(r) ==
  /\ Len(runs[r].calls) <= Len(runs[r].todo)
  /\ \A k \in 1..Len(runs[r].calls) : runs[r].calls[k] = runs[r].todo[k]

\* C25: runAnalysis on a pending or in-progress analysis calls the LLM once
\* for each step that is not completed, in the order of METHODOLOGY_STEPS,
\* and never for a completed step, which it leaves as it is; when every
\* call succeeds, all steps are completed with a result and the analysis
\* is completed with completedAt set.
C25_RunsEachOpenStepOnce ==
  [][/\ CallsFollowTodo(1)'
     /\ \A i \in Steps :
          analysis.steps[i].status = "completed"
            => analysis'.steps[i] = analysis.steps[i]
     /\ (/\ last'.op = "runAnalysis" /\ last'.ret = "returned"
         /\ analysis.status \in {"pending", "in-progress"})
          => /\ runs'[1].calls = runs'[1].todo
             /\ \A i \in Steps :
                  /\ analysis'.steps[i].status = "completed"
                  /\ analysis'.steps[i].result # "null"
             /\ analysis'.status = "completed"
             /\ Truthy(analysis'.completedAt)]_vars

C25_Witness ==
  /\ last.op = "runAnalysis" /\ last.ret = "returned"
  /\ analysis.status = "completed"
  /\ analysis.steps[1].result = "existing"
  /\ Len(runs[1].calls) = MaxSteps - 1 /\ runs[1].calls[1] = 2
  /\ \A i \in Steps : analysis.steps[i].status = "completed"

C27_TerminalStatusesAbsorbing ==
  [][/\ \A r \in Runs :
          (/\ last'.op = "runAnalysis" /\ last'.run = r
           /\ runs[r].pc = "idle" /\ last'.ret # "ANALYSIS_INPUT_ERROR"
           /\ analysis.status \in {"completed", "failed"})
            => /\ last'.ret = IF analysis.status = "completed"
                              THEN "returned" ELSE "ANALYSIS_CONFLICT"
               /\ analysis' = analysis /\ saves' = saves
               /\ runs'[r].calls = <<>>
     /\ analysis.status \in {"completed", "failed"}
          => analysis'.status = analysis.status
     /\ \A i \in Steps :
          analysis.steps[i].status \in {"completed", "failed"}
            => analysis'.steps[i].status = analysis.steps[i].status]_vars

====
